---- MODULE Spec2Model ----
(***************************************************************************)
(* Model of the Solana OpenAPI LayerZero V2 program (src/solana-program):  *)
(* the four instruction handlers send_message, receive_message, query_data *)
(* and process_response, the MessageRecord they keep in the message        *)
(* account, the ProgramConfig they read and the endpoint they call.        *)
(*                                                                         *)
(* A message account is a byte buffer of fixed length `cap`.  The model    *)
(* keeps the record whose Borsh encoding is the prefix of the buffer and   *)
(* the buffer length: MessageRecord::try_from_slice succeeds exactly when  *)
(* the encoding fills the whole buffer, and serialize succeeds exactly     *)
(* when the encoding fits.  A fresh account of the program is zero-filled. *)
(* SHA-256 is modelled as injective: a digest is its hashed byte string.   *)
(* A byte string is [body, pad]: the bytes of body followed by pad zeros.  *)
(***************************************************************************)
EXTENDS Integers, Sequences, FiniteSets, TLC

VARIABLES
    clock,    \* Clock sysvar: unix_timestamp
    config,   \* the config account: [cap, val]
    slot,     \* the message account: [owned, cap, rec]
    last,     \* the last instruction: request, ProgramResult, buffer, dispatch
    origin,   \* which handler wrote the record now in the slot
    scn,      \* progress of the Receive, Receive, ProcessResponse, Receive scenario
    calc      \* the last evaluation of a pure function: inputs and results

vars == <<clock, config, slot, last, origin, scn, calc>>

----------------------------------------------------------------------------
(* Bounds of the model *)

\* the clock runs from 0 to MaxClock
MaxClock == 1

----------------------------------------------------------------------------
(* MessageStatus, state.rs *)

Pending == 1
InFlight == 2
Delivered == 3
Failed == 4
Completed == 5

\* send_message.rs: if send_data.payload.len() > 10000
MaxPayloadLen == 10000

----------------------------------------------------------------------------
(* Byte strings *)

Bytes(body, pad) == [body |-> body, pad |-> pad]

BLen(b) == Len(b.body) + b.pad

RECURSIVE StripZeros(_, _)
StripZeros(body, pad) ==
    IF body # <<>> /\ body[Len(body)] = 0
    THEN StripZeros(SubSeq(body, 1, Len(body) - 1), pad + 1)
    ELSE Bytes(body, pad)

\* the one representation of a byte string: no zero at the end of body
Canon(b) == StripZeros(b.body, b.pad)

\* a then b
Concat(a, b) ==
    IF b.body = <<>> THEN Canon(Bytes(a.body, a.pad + b.pad))
    ELSE Canon(Bytes(a.body \o [i \in 1..a.pad |-> 0] \o b.body, b.pad))

RECURSIVE LittleEndian(_, _)
LittleEndian(n, w) ==
    IF w = 0 THEN <<>> ELSE <<n % 256>> \o LittleEndian(n \div 256, w - 1)

\* an encoding of n without its high zero bytes, of no fixed width
to_le_bytes_Shortest(n, w) == Bytes(Canon(Bytes(LittleEndian(n, w), 0)).body, 0)

\* u32::to_le_bytes, u64::to_le_bytes: w bytes, least significant first
to_le_bytes(n, w) == Bytes(LittleEndian(n, w), 0)

\* Option<T>
None == <<>>
Some(x) == <<x>>

----------------------------------------------------------------------------
(* Pubkeys *)

ZeroKey == "11111111"
TrustedEndpoint == "E1"
OtherEndpoint == "E2"
Admin == "Adm"
FeeAccount == "Fee"
Signers == {"A", "B"}
Endpoints == {TrustedEndpoint, OtherEndpoint}

----------------------------------------------------------------------------
(* layerzero.rs *)

\* MessageOptions
MessageOptions(gas_limit, refund_address) ==
    [gas_limit |-> gas_limit, refund_address |-> refund_address,
     executor_options |-> Bytes(<<>>, 0), receiver_options |-> Bytes(<<>>, 0)]

\* CrossChainMessage::new
CrossChainMessage_new(source_chain_id, destination_chain_id, message_type, payload, nonce, options) ==
    [source_chain_id |-> source_chain_id,
     destination_chain_id |-> destination_chain_id,
     message_type |-> message_type,
     payload |-> payload,
     nonce |-> nonce,
     options |-> options]

\* the bytes CrossChainMessage::generate_id feeds to the hasher, in its order
HasherInput(m) ==
    Canon(Bytes(to_le_bytes(m.source_chain_id, 4).body
                  \o to_le_bytes(m.destination_chain_id, 4).body
                  \o <<m.message_type>>
                  \o to_le_bytes(m.nonce, 8).body
                  \o m.payload.body,
                m.payload.pad))

\* an id that also covers the options of the message
generate_id_OptionsHashed(m) == [sha256 |-> HasherInput(m), options |-> m.options]

\* CrossChainMessage::generate_id: SHA-256 of HasherInput
generate_id(m) == [sha256 |-> HasherInput(m)]

\* 32 zero bytes: the message_id field of a zero-filled account
ZeroId == [zero |-> 32]

\* base fee of get_fee_quote
BaseFee(destination_chain_id) ==
    CASE destination_chain_id = 1 -> 1000000
      [] destination_chain_id = 2 -> 500000
      [] destination_chain_id = 3 -> 600000
      [] destination_chain_id = 4 -> 400000
      [] OTHER -> 800000

\* a quote without the gas fee
get_fee_quote_GasIgnored(destination_chain_id, payload_size, options) ==
    BaseFee(destination_chain_id) + payload_size * 100

\* get_fee_quote
get_fee_quote(destination_chain_id, payload_size, options) ==
    BaseFee(destination_chain_id) + payload_size * 100
        + options.gas_limit \div 1000

\* a u64 is kept as four 16-bit limbs, the most significant first
LimbBase == 65536

\* the u64 of a number below 2^31
ToU64(n) == <<0, 0, n \div LimbBase, n % LimbBase>>

\* x / d in u64, for d below 2^15
DivU64(x, d) ==
    LET r1 == x[1] % d
        t2 == r1 * LimbBase + x[2]
        r2 == t2 % d
        t3 == r2 * LimbBase + x[3]
        r3 == t3 % d
        t4 == r3 * LimbBase + x[4]
    IN  <<x[1] \div d, t2 \div d, t3 \div d, t4 \div d>>

\* x + n in u64, for n below 2^30: the sum modulo 2^64 and whether it wrapped
AddU64(x, n) ==
    LET s4 == x[4] + n
        s3 == x[3] + s4 \div LimbBase
        s2 == x[2] + s3 \div LimbBase
        s1 == x[1] + s2 \div LimbBase
    IN  [value |-> <<s1 % LimbBase, s2 % LimbBase, s3 % LimbBase, s4 % LimbBase>>,
         overflow |-> s1 \div LimbBase > 0]

\* a quote whose gas fee is the gas limit itself
get_fee_quote_u64_GasUndivided(destination_chain_id, payload_size, gas_limit) ==
    AddU64(gas_limit, BaseFee(destination_chain_id) + payload_size * 100)

\* get_fee_quote in the width of its u64 arithmetic, for a payload size below
\* 2^23: base_fee + byte_fee stays below 2^30, gas_fee is added to it
get_fee_quote_u64(destination_chain_id, payload_size, gas_limit) ==
    AddU64(DivU64(gas_limit, 1000),
           BaseFee(destination_chain_id) + payload_size * 100)

\* verify_from_endpoint: logs and returns Ok(())
verify_from_endpoint(endpoint, m) == "Ok"

\* an instruction for the endpoint that carries the message's destination
\* chain where the destination address belongs
LayerZeroSend_NoAddress(m, destination_address) ==
    [destination_chain_id |-> m.destination_chain_id,
     destination_address |-> to_le_bytes(m.destination_chain_id, 4),
     payload |-> m.payload,
     options |-> m.options[1]]

\* LayerZeroInstruction::Send built by send_to_endpoint
LayerZeroSend(m, destination_address) ==
    [destination_chain_id |-> m.destination_chain_id,
     destination_address |-> destination_address,
     payload |-> m.payload,
     options |-> m.options[1]]

\* a send_to_endpoint that fills in default options where the message has none
send_to_endpoint_DefaultOptions(m, destination_address, fault) ==
    LET sent == IF m.options = None
                THEN [m EXCEPT !.options = Some(MessageOptions(0, ZeroKey))]
                ELSE m
    IN  [res |-> IF fault = "invoke" THEN "EndpointError" ELSE "Ok",
         disp |-> <<LayerZeroSend(sent, destination_address)>>]

\* send_to_endpoint: the result and the instructions the endpoint was invoked
\* with; fault = "invoke": the invoked program fails
send_to_endpoint(m, destination_address, fault) ==
    IF m.options = None
    THEN [res |-> "InvalidMessageOptions", disp |-> <<>>]
    ELSE [res |-> IF fault = "invoke" THEN "EndpointError" ELSE "Ok",
          disp |-> <<LayerZeroSend(m, destination_address)>>]

----------------------------------------------------------------------------
(* error.rs *)

\* the variants of SolanaOpenApiError, in the order of their declaration
SolanaOpenApiError ==
    <<"InvalidInstructionData", "InvalidAccountData", "AccountNotInitialized",
      "InsufficientFunds", "InvalidEndpoint", "Unauthorized",
      "MessageAlreadyProcessed", "InvalidMessageStatus",
      "InvalidDestinationChain", "MessageNotFound", "PayloadTooLarge",
      "InvalidMessageOptions">>

\* From<SolanaOpenApiError> for ProgramError: Custom(e as u32), the
\* discriminant of a variant being its place in the declaration, from 0
ProgramErrorCode(e) ==
    (CHOOSE i \in 1..Len(SolanaOpenApiError) : SolanaOpenApiError[i] = e) - 1

\* FromPrimitive::from_u64
from_u64(n) ==
    CASE n = 1 -> Some("InvalidInstructionData")
      [] n = 2 -> Some("InvalidAccountData")
      [] n = 3 -> Some("AccountNotInitialized")
      [] n = 4 -> Some("InsufficientFunds")
      [] n = 5 -> Some("InvalidEndpoint")
      [] n = 6 -> Some("Unauthorized")
      [] n = 7 -> Some("MessageAlreadyProcessed")
      [] n = 8 -> Some("InvalidMessageStatus")
      [] n = 9 -> Some("InvalidDestinationChain")
      [] n = 10 -> Some("MessageNotFound")
      [] OTHER -> None

----------------------------------------------------------------------------
(* state.rs *)

\* a constructor whose record starts InFlight
MessageRecord_new_InFlight(message_id, source_chain_id, destination_chain_id, message_type, sender, timestamp) ==
    [is_initialized |-> TRUE,
     message_id |-> message_id,
     source_chain_id |-> source_chain_id,
     destination_chain_id |-> destination_chain_id,
     message_type |-> message_type,
     sender |-> sender,
     status |-> InFlight,
     timestamp |-> timestamp,
     response_data |-> None]

\* a constructor that stores the two chain ids the other way round
MessageRecord_new_ChainsSwapped(message_id, source_chain_id, destination_chain_id, message_type, sender, timestamp) ==
    [is_initialized |-> TRUE,
     message_id |-> message_id,
     source_chain_id |-> destination_chain_id,
     destination_chain_id |-> source_chain_id,
     message_type |-> message_type,
     sender |-> sender,
     status |-> Pending,
     timestamp |-> timestamp,
     response_data |-> None]

\* MessageRecord::new
MessageRecord_new(message_id, source_chain_id, destination_chain_id, message_type, sender, timestamp) ==
    [is_initialized |-> TRUE,
     message_id |-> message_id,
     source_chain_id |-> source_chain_id,
     destination_chain_id |-> destination_chain_id,
     message_type |-> message_type,
     sender |-> sender,
     status |-> Pending,
     timestamp |-> timestamp,
     response_data |-> None]

\* an update_status that marks the record Completed whatever status is asked
update_status_Completes(rec, status) == [rec EXCEPT !.status = Completed]

\* MessageRecord::update_status
update_status(rec, status) == [rec EXCEPT !.status = status]

\* a set_response that marks the record Completed and drops the response
set_response_Dropped(rec, response_data) == [rec EXCEPT !.status = Completed]

\* MessageRecord::set_response
set_response(rec, response_data) ==
    [rec EXCEPT !.response_data = Some(response_data), !.status = Completed]

\* the record a zero-filled buffer decodes to
ZeroRecord ==
    [is_initialized |-> FALSE,
     message_id |-> ZeroId,
     source_chain_id |-> 0,
     destination_chain_id |-> 0,
     message_type |-> 0,
     sender |-> ZeroKey,
     status |-> 0,
     timestamp |-> 0,
     response_data |-> None]

\* length of the Borsh encoding of a MessageRecord: bool, [u8; 32], u32, u32,
\* u8, Pubkey, u8, u64, Option<Vec<u8>> (tag, then u32 length and the bytes)
RecordLen(rec) ==
    1 + 32 + 4 + 4 + 1 + 32 + 1 + 8
      + (IF rec.response_data = None THEN 1
         ELSE 1 + 4 + BLen(rec.response_data[1]))

\* length of the Borsh encoding of a ProgramConfig: bool, 3 Pubkeys, u32
ConfigLen == 1 + 32 + 32 + 32 + 4

\* QueryParams, Borsh-encoded: u8, Vec<u8>, Option<Vec<u8>>
QueryParamsBytes(q) ==
    Concat(Concat(Concat(Bytes(<<q.query_type>>, 0),
                         to_le_bytes(BLen(q.target_address), 4)),
                  q.target_address),
           IF q.extra_params = None THEN Bytes(<<>>, 1)
           ELSE Concat(Concat(Bytes(<<1>>, 0),
                              to_le_bytes(BLen(q.extra_params[1]), 4)),
                       q.extra_params[1]))

----------------------------------------------------------------------------
(* Accounts *)

\* AccountInfo::data_is_empty
data_is_empty(acc) == acc.cap = 0

\* MessageRecord::try_from_slice(&message_account.data.borrow()): Borsh decodes
\* the record from the front of the buffer and fails on a buffer that ends
\* early or that has bytes left over
RecordParses(acc) == RecordLen(acc.rec) = acc.cap

\* ProgramConfig::try_from_slice(&config_account.data.borrow())
ConfigParses(cfg) == cfg.cap = ConfigLen

\* a buffer that takes a record of any length
Fits_Always(acc, rec) == TRUE

\* record.serialize(&mut *message_account.data.borrow_mut()): does the
\* encoding fit the buffer
Fits(acc, rec) == RecordLen(rec) <= acc.cap

\* what a handler returns and leaves behind: its ProgramResult, the record in
\* the buffer of the message account, whether it wrote that buffer ("no",
\* "record", or "torn" when the buffer ended before the record did), the
\* instructions it invoked on the endpoint, the fee it was quoted and whether
\* it called verify_from_endpoint
Out(res, buf, wrote, disp) ==
    [res |-> res, buf |-> buf, wrote |-> wrote, disp |-> disp, fee |-> None,
     verified |-> FALSE]

\* the handler got as far as verify_from_endpoint
Verified(out) == [out EXCEPT !.verified = TRUE]

\* an error returned before the handler touched the buffer
Err(acc, e) == Out(e, acc.rec, "no", <<>>)

\* serialize(...).map_err(|_| ProgramError::AccountDataTooSmall)? as the last
\* step of receive_message and process_response
SerializeAndReturn(acc, rec) ==
    IF Fits(acc, rec) THEN Out("Ok", rec, "record", <<>>)
    ELSE Out("AccountDataTooSmall", acc.rec,
             IF acc.cap = 0 THEN "no" ELSE "torn", <<>>)

\* the config checks with the endpoint compared before the flag is read
ConfigError_EndpointFirst(cfg, endpoint) ==
    IF ~ConfigParses(cfg) THEN "InvalidAccountData"
    ELSE IF cfg.val.layerzero_endpoint # endpoint THEN "InvalidEndpoint"
    ELSE IF ~cfg.val.is_initialized THEN "AccountNotInitialized"
    ELSE "Ok"

\* the config checks without the comparison of the endpoint
ConfigError_AnyEndpoint(cfg, endpoint) ==
    IF ~ConfigParses(cfg) THEN "InvalidAccountData"
    ELSE IF ~cfg.val.is_initialized THEN "AccountNotInitialized"
    ELSE "Ok"

\* the config checks every handler makes, in their order: the account decodes
\* as a ProgramConfig, the config is initialized, its endpoint is the endpoint
\* account of the call; "Ok" when all pass
ConfigError(cfg, endpoint) ==
    IF ~ConfigParses(cfg) THEN "InvalidAccountData"
    ELSE IF ~cfg.val.is_initialized THEN "AccountNotInitialized"
    ELSE IF cfg.val.layerzero_endpoint # endpoint THEN "InvalidEndpoint"
    ELSE "Ok"

----------------------------------------------------------------------------
(* instructions/send_message.rs, instructions/query_data.rs *)

\* the shared tail, were a quote above the base fee of every chain a reason
\* not to dispatch
Dispatch_FeeBlocks(acc, signer, cfg, message, destination_address, payload_len, fault) ==
    LET message_id == generate_id(message)
        message_record ==
            MessageRecord_new(message_id, cfg.val.solana_chain_id,
                              message.destination_chain_id,
                              message.message_type, signer, message.nonce)
        fee == get_fee_quote(message.destination_chain_id, payload_len,
                             MessageOptions(message.options[1].gas_limit, signer))
    IN  IF ~Fits(acc, message_record)
        THEN Out("AccountDataTooSmall", acc.rec,
                 IF acc.cap = 0 THEN "no" ELSE "torn", <<>>)
        ELSE IF fee > 1000000 \/ message.options = None
        THEN [Out("InvalidMessageOptions", message_record, "record", <<>>)
                 EXCEPT !.fee = Some(fee)]
        ELSE IF fault = "invoke"
        THEN [Out("EndpointError", message_record, "record",
                  <<LayerZeroSend(message, destination_address)>>)
                 EXCEPT !.fee = Some(fee)]
        ELSE [Out("Ok", message_record, "record",
                  <<LayerZeroSend(message, destination_address)>>)
                 EXCEPT !.fee = Some(fee)]

\* the tail shared by send_message::process and query_data::process: record,
\* serialize, fee quote, send_to_endpoint
Dispatch(acc, signer, cfg, message, destination_address, payload_len, fault) ==
    LET message_id == generate_id(message)
        message_record ==
            MessageRecord_new(message_id, cfg.val.solana_chain_id,
                              message.destination_chain_id,
                              message.message_type, signer, message.nonce)
        fee == get_fee_quote(message.destination_chain_id, payload_len,
                             MessageOptions(message.options[1].gas_limit, signer))
    IN  IF ~Fits(acc, message_record)
        THEN Out("AccountDataTooSmall", acc.rec,
                 IF acc.cap = 0 THEN "no" ELSE "torn", <<>>)
        ELSE LET sent == send_to_endpoint(message, destination_address, fault)
             IN  [Out(sent.res, message_record, "record", sent.disp)
                     EXCEPT !.fee = Some(fee)]

\* a send_message::process that looks at the config before the payload size
send_message_process_ConfigFirst(acc, signer, is_signer, data, cfg, endpoint, now, fault) ==
    IF fault = "accounts" THEN Err(acc, "NotEnoughAccountKeys")
    ELSE IF ~is_signer THEN Err(acc, "Unauthorized")
    ELSE IF data = None THEN Err(acc, "InvalidInstructionData")
    ELSE IF ConfigError(cfg, endpoint) # "Ok"
    THEN Err(acc, ConfigError(cfg, endpoint))
    ELSE IF BLen(data[1].payload) > MaxPayloadLen THEN Err(acc, "PayloadTooLarge")
    ELSE IF fault = "clock" THEN Err(acc, "InvalidArgument")
    ELSE Dispatch(acc, signer, cfg,
                  CrossChainMessage_new(cfg.val.solana_chain_id,
                                        data[1].destination_chain_id,
                                        data[1].message_type, data[1].payload, now,
                                        Some(MessageOptions(data[1].gas_limit, signer))),
                  data[1].destination_address, BLen(data[1].payload), fault)

\* send_message::process
send_message_process(acc, signer, is_signer, data, cfg, endpoint, now, fault) ==
    IF fault = "accounts" THEN Err(acc, "NotEnoughAccountKeys")
    ELSE IF ~is_signer THEN Err(acc, "Unauthorized")
    ELSE IF data = None THEN Err(acc, "InvalidInstructionData")
    ELSE IF BLen(data[1].payload) > MaxPayloadLen THEN Err(acc, "PayloadTooLarge")
    ELSE IF ConfigError(cfg, endpoint) # "Ok"
    THEN Err(acc, ConfigError(cfg, endpoint))
    ELSE IF fault = "clock" THEN Err(acc, "InvalidArgument")
    ELSE LET send_data == data[1]
             nonce == now
             options == MessageOptions(send_data.gas_limit, signer)
             message ==
                 CrossChainMessage_new(cfg.val.solana_chain_id,
                                       send_data.destination_chain_id,
                                       send_data.message_type,
                                       send_data.payload, nonce, Some(options))
         IN  Dispatch(acc, signer, cfg, message, send_data.destination_address,
                      BLen(send_data.payload), fault)

\* query_data::process
query_data_process(acc, signer, is_signer, data, cfg, endpoint, now, fault) ==
    IF fault = "accounts" THEN Err(acc, "NotEnoughAccountKeys")
    ELSE IF ~is_signer THEN Err(acc, "Unauthorized")
    ELSE IF data = None THEN Err(acc, "InvalidInstructionData")
    ELSE IF ConfigError(cfg, endpoint) # "Ok"
    THEN Err(acc, ConfigError(cfg, endpoint))
    ELSE IF data[1].destination_chain_id = 0
    THEN Err(acc, "InvalidDestinationChain")
    ELSE IF fault = "clock" THEN Err(acc, "InvalidArgument")
    ELSE LET query_data == data[1]
             options == MessageOptions(query_data.gas_limit, signer)
             payload == QueryParamsBytes(query_data.query_params)
             message ==
                 CrossChainMessage_new(cfg.val.solana_chain_id,
                                       query_data.destination_chain_id,
                                       query_data.query_params.query_type,
                                       payload, now, Some(options))
         IN  Dispatch(acc, signer, cfg, message,
                      query_data.destination_address, BLen(payload), fault)

----------------------------------------------------------------------------
(* instructions/receive_message.rs *)

\* a received message whose payload starts with the source address
ReceivedMessage_AddressHashed(receive_data, cfg) ==
    CrossChainMessage_new(receive_data.source_chain_id,
                          cfg.val.solana_chain_id,
                          receive_data.message_type,
                          Concat(receive_data.source_address, receive_data.payload),
                          0, None)

\* the message receive_message::process builds from the request
ReceivedMessage(receive_data, cfg) ==
    CrossChainMessage_new(receive_data.source_chain_id,
                          cfg.val.solana_chain_id,
                          receive_data.message_type,
                          receive_data.payload, 0, None)

\* the record receive_message::process builds for an account without data
ReceivedRecord(receive_data, cfg, signer, now) ==
    update_status(
        MessageRecord_new(generate_id(ReceivedMessage(receive_data, cfg)),
                          receive_data.source_chain_id,
                          cfg.val.solana_chain_id,
                          receive_data.message_type,
                          signer, now),
        Delivered)

\* the branch of an account that holds data, were the status looked at before
\* the message_id
ReceiveExisting_StatusFirst(acc, message_id) ==
    IF ~RecordParses(acc) THEN Err(acc, "InvalidAccountData")
    ELSE IF acc.rec.status = Completed THEN Err(acc, "MessageAlreadyProcessed")
    ELSE IF acc.rec.message_id # message_id THEN Err(acc, "InvalidAccountData")
    ELSE SerializeAndReturn(acc, update_status(acc.rec, Delivered))

\* the branch of an account that holds data, were a Delivered record refused
\* like a Completed one
ReceiveExisting_DeliveredRefused(acc, message_id) ==
    IF ~RecordParses(acc) THEN Err(acc, "InvalidAccountData")
    ELSE IF acc.rec.message_id # message_id THEN Err(acc, "InvalidAccountData")
    ELSE IF acc.rec.status \in {Delivered, Completed}
    THEN Err(acc, "MessageAlreadyProcessed")
    ELSE SerializeAndReturn(acc, update_status(acc.rec, Delivered))

\* receive_message::process, the branch of an account that holds data
ReceiveExisting(acc, message_id) ==
    IF ~RecordParses(acc) THEN Err(acc, "InvalidAccountData")
    ELSE IF acc.rec.message_id # message_id THEN Err(acc, "InvalidAccountData")
    ELSE IF acc.rec.status = Completed THEN Err(acc, "MessageAlreadyProcessed")
    ELSE SerializeAndReturn(acc, update_status(acc.rec, Delivered))

\* receive_message::process
receive_message_process(acc, signer, is_signer, data, cfg, endpoint, now, fault) ==
    IF fault = "accounts" THEN Err(acc, "NotEnoughAccountKeys")
    ELSE IF ~is_signer THEN Err(acc, "Unauthorized")
    ELSE IF data = None THEN Err(acc, "InvalidInstructionData")
    ELSE IF ConfigError(cfg, endpoint) # "Ok"
    THEN Err(acc, ConfigError(cfg, endpoint))
    ELSE IF verify_from_endpoint(endpoint, ReceivedMessage(data[1], cfg)) # "Ok"
    THEN Verified(Err(acc, verify_from_endpoint(endpoint,
                                                ReceivedMessage(data[1], cfg))))
    ELSE IF fault = "clock" THEN Verified(Err(acc, "InvalidArgument"))
    ELSE LET receive_data == data[1]
             message_id == generate_id(ReceivedMessage(receive_data, cfg))
         IN  IF data_is_empty(acc)
             THEN Verified(SerializeAndReturn(acc,
                      ReceivedRecord(receive_data, cfg, signer, now)))
             ELSE Verified(ReceiveExisting(acc, message_id))

----------------------------------------------------------------------------
(* instructions/process_response.rs *)

\* the message process_response::process builds for verification
ResponseMessage(response_data, cfg) ==
    CrossChainMessage_new(response_data.source_chain_id,
                          cfg.val.solana_chain_id, 0,
                          response_data.response_payload, 0, None)

\* process_response::process from the load of the record on, were the
\* message_id of the record not compared
CompleteRecord_AnyId(acc, response_data) ==
    IF ~RecordParses(acc) THEN Err(acc, "InvalidAccountData")
    ELSE IF acc.rec.status = Completed THEN Err(acc, "MessageAlreadyProcessed")
    ELSE SerializeAndReturn(acc,
             update_status(set_response(acc.rec, response_data.response_payload),
                           Completed))

\* process_response::process from the load of the record on, were the status
\* of the record not looked at
CompleteRecord_StatusIgnored(acc, response_data) ==
    IF ~RecordParses(acc) THEN Err(acc, "InvalidAccountData")
    ELSE IF acc.rec.message_id # response_data.original_message_id
    THEN Err(acc, "MessageNotFound")
    ELSE SerializeAndReturn(acc,
             update_status(set_response(acc.rec, response_data.response_payload),
                           Completed))

\* process_response::process from the load of the record on, were the status
\* of the record looked at before its message_id
CompleteRecord_StatusFirst(acc, response_data) ==
    IF ~RecordParses(acc) THEN Err(acc, "InvalidAccountData")
    ELSE IF acc.rec.status = Completed THEN Err(acc, "MessageAlreadyProcessed")
    ELSE IF acc.rec.message_id # response_data.original_message_id
    THEN Err(acc, "MessageNotFound")
    ELSE SerializeAndReturn(acc,
             update_status(set_response(acc.rec, response_data.response_payload),
                           Completed))

\* process_response::process, from the load of the record on
CompleteRecord(acc, response_data) ==
    IF ~RecordParses(acc) THEN Err(acc, "InvalidAccountData")
    ELSE IF acc.rec.message_id # response_data.original_message_id
    THEN Err(acc, "MessageNotFound")
    ELSE IF acc.rec.status = Completed THEN Err(acc, "MessageAlreadyProcessed")
    ELSE SerializeAndReturn(acc,
             update_status(set_response(acc.rec, response_data.response_payload),
                           Completed))

\* process_response::process, were the relayer's signature not looked at
process_response_process_Unsigned(acc, signer, is_signer, data, cfg, endpoint, now, fault) ==
    IF fault = "accounts" THEN Err(acc, "NotEnoughAccountKeys")
    ELSE IF data = None THEN Err(acc, "InvalidInstructionData")
    ELSE IF ConfigError(cfg, endpoint) # "Ok"
    THEN Err(acc, ConfigError(cfg, endpoint))
    ELSE IF verify_from_endpoint(endpoint, ResponseMessage(data[1], cfg)) # "Ok"
    THEN Verified(Err(acc, verify_from_endpoint(endpoint,
                                                ResponseMessage(data[1], cfg))))
    ELSE IF fault = "clock" THEN Verified(Err(acc, "InvalidArgument"))
    ELSE Verified(CompleteRecord(acc, data[1]))

\* process_response::process
process_response_process(acc, signer, is_signer, data, cfg, endpoint, now, fault) ==
    IF fault = "accounts" THEN Err(acc, "NotEnoughAccountKeys")
    ELSE IF ~is_signer THEN Err(acc, "Unauthorized")
    ELSE IF data = None THEN Err(acc, "InvalidInstructionData")
    ELSE IF ConfigError(cfg, endpoint) # "Ok"
    THEN Err(acc, ConfigError(cfg, endpoint))
    ELSE IF verify_from_endpoint(endpoint, ResponseMessage(data[1], cfg)) # "Ok"
    THEN Verified(Err(acc, verify_from_endpoint(endpoint,
                                                ResponseMessage(data[1], cfg))))
    ELSE IF fault = "clock" THEN Verified(Err(acc, "InvalidArgument"))
    ELSE Verified(CompleteRecord(acc, data[1]))

----------------------------------------------------------------------------
(* lib.rs *)

\* instruction data: the first byte, then the Borsh encoding of a request of
\* the handler `kind` (data = None: bytes that no request encodes to)
InstructionData(tag, kind, data) == <<tag, [kind |-> kind, data |-> data]>>

\* try_from_slice of the request of handler `kind` on the remaining bytes
Decode(kind, rest) ==
    IF rest # <<>> /\ rest[1].kind = kind THEN rest[1].data ELSE None

\* a dispatcher that takes 1 for Query and 2 for Receive
process_instruction_QueryIsOne(acc, signer, is_signer, instruction_data, cfg, endpoint, now, fault) ==
    IF instruction_data = <<>> THEN Err(acc, "InvalidInstructionData")
    ELSE LET rest == Tail(instruction_data)
         IN  CASE Head(instruction_data) = 0 ->
                    send_message_process(acc, signer, is_signer,
                        Decode("Send", rest), cfg, endpoint, now, fault)
               [] Head(instruction_data) = 2 ->
                    receive_message_process(acc, signer, is_signer,
                        Decode("Receive", rest), cfg, endpoint, now, fault)
               [] Head(instruction_data) = 1 ->
                    query_data_process(acc, signer, is_signer,
                        Decode("Query", rest), cfg, endpoint, now, fault)
               [] Head(instruction_data) = 3 ->
                    process_response_process(acc, signer, is_signer,
                        Decode("ProcessResponse", rest), cfg, endpoint, now, fault)
               [] OTHER -> Err(acc, "InvalidInstructionData")

\* process_instruction
process_instruction(acc, signer, is_signer, instruction_data, cfg, endpoint, now, fault) ==
    IF instruction_data = <<>> THEN Err(acc, "InvalidInstructionData")
    ELSE LET rest == Tail(instruction_data)
         IN  CASE Head(instruction_data) = 0 ->
                    send_message_process(acc, signer, is_signer,
                        Decode("Send", rest), cfg, endpoint, now, fault)
               [] Head(instruction_data) = 1 ->
                    receive_message_process(acc, signer, is_signer,
                        Decode("Receive", rest), cfg, endpoint, now, fault)
               [] Head(instruction_data) = 2 ->
                    query_data_process(acc, signer, is_signer,
                        Decode("Query", rest), cfg, endpoint, now, fault)
               [] Head(instruction_data) = 3 ->
                    process_response_process(acc, signer, is_signer,
                        Decode("ProcessResponse", rest), cfg, endpoint, now, fault)
               [] OTHER -> Err(acc, "InvalidInstructionData")

\* the first byte a client puts before the request of a handler
OpTag(op) ==
    CASE op = "Send" -> 0
      [] op = "Receive" -> 1
      [] op = "Query" -> 2
      [] op = "ProcessResponse" -> 3

----------------------------------------------------------------------------
(* The host: lib.rs entrypoint!(process_instruction) *)

\* the runtime keeps what an instruction wrote when the instruction returned
\* Ok and the account is the program's, or was left as it was
Committed(acc, out) == out.res = "Ok" /\ (acc.owned \/ out.buf = acc.rec)

Commit(acc, out) == IF Committed(acc, out) THEN [acc EXCEPT !.rec = out.buf] ELSE acc

\* a config account whose flag a call clears
ConfigAfter_Cleared(cfg, out) == [cfg EXCEPT !.val.is_initialized = FALSE]

\* the config account after an instruction: every handler takes its data by
\* config_account.data.borrow() and none writes it
ConfigAfter(cfg, out) == cfg

----------------------------------------------------------------------------
(* Inputs *)

SmallPayload == Bytes(<<1>>, 0)

DestinationAddress == Bytes(<<170>>, 0)

SourceAddress == Bytes(<<187>>, 0)

OtherSourceAddress == Bytes(<<204>>, 0)

SendData(d, p) ==
    [destination_chain_id |-> d, destination_address |-> DestinationAddress,
     message_type |-> 1, payload |-> p, gas_limit |-> 10000]

\* payloads of 1 and of 10000 bytes to chain 2 and to the local chain, a send
\* to chain 0, a payload of 10001 bytes, a send with another gas limit
SendRequests ==
    {SendData(d, p) : d \in {2, 7},
                      p \in {SmallPayload, Bytes(<<1>>, MaxPayloadLen - 1)}}
      \cup {SendData(0, SmallPayload), SendData(2, Bytes(<<1>>, MaxPayloadLen)),
            [SendData(2, SmallPayload) EXCEPT !.gas_limit = 2000]}

QueryData(d, e) ==
    [destination_chain_id |-> d, destination_address |-> DestinationAddress,
     query_params |-> [query_type |-> 4, target_address |-> Bytes(<<9>>, 0),
                       extra_params |-> e],
     gas_limit |-> 10000]

\* a query whose target address alone is longer than 10000 bytes
LargeQuery ==
    [QueryData(2, None) EXCEPT
        !.query_params.target_address = Bytes(<<9>>, MaxPayloadLen)]

QueryRequests ==
    {QueryData(2, None), QueryData(2, Some(Bytes(<<5>>, 0))), QueryData(0, None),
     LargeQuery}

ReceiveData(s, p, t) ==
    [source_chain_id |-> s, source_address |-> SourceAddress,
     payload |-> p, message_type |-> t]

ReceiveRequests ==
    {ReceiveData(s, p, 1) : s \in {2, 7}, p \in {SmallPayload, Bytes(<<2>>, 0)}}
      \cup {ReceiveData(2, SmallPayload, 4),
            [ReceiveData(2, SmallPayload, 1) EXCEPT !.source_address = OtherSourceAddress]}

\* an id no modelled message hashes to
OtherId == [sha256 |-> Bytes(<<255>>, 0)]

ResponseData(s, p, id) ==
    [source_chain_id |-> s, source_address |-> SourceAddress,
     response_payload |-> p, original_message_id |-> id]

\* responses of 1 and of 2 bytes, naming the record of the account or not
ResponseRequests(acc) ==
    {ResponseData(s, p, id) :
        s \in {2, 7},
        p \in {Bytes(<<2>>, 0), Bytes(<<1, 2>>, 0)},
        id \in {acc.rec.message_id, OtherId}}

Input(signer, is_signer, endpoint, fault, data) ==
    [signer |-> signer, is_signer |-> is_signer, endpoint |-> endpoint,
     fault |-> fault, data |-> data]

\* calls that are signed, decodable and name the trusted endpoint
CleanInputs(signers, requests) ==
    {Input(s, TRUE, TrustedEndpoint, "none", Some(r)) :
        s \in signers, r \in requests}

\* every combination of a missing signature, undecodable instruction data and
\* a wrong endpoint
DefectInputs(requests) ==
    {Input("A", sg, e, "none", d) :
        sg \in BOOLEAN, e \in Endpoints,
        d \in {None} \cup {Some(r) : r \in requests}}

\* a short account list, a wrong clock account, a failing endpoint program
FaultInputs(faults, request) ==
    {Input("A", TRUE, TrustedEndpoint, f, Some(request)) : f \in faults}

SendInputs ==
    CleanInputs({"A", "B"}, SendRequests)
      \cup DefectInputs({SendData(2, SmallPayload),
                         SendData(2, Bytes(<<1>>, MaxPayloadLen))})
      \cup FaultInputs({"accounts", "clock", "invoke"}, SendData(2, SmallPayload))

QueryInputs ==
    CleanInputs({"A"}, QueryRequests)
      \cup DefectInputs({QueryData(2, None)})
      \cup FaultInputs({"accounts", "clock", "invoke"}, QueryData(2, None))

ReceiveInputs ==
    CleanInputs({"A"}, ReceiveRequests)
      \cup DefectInputs({ReceiveData(2, SmallPayload, 1)})
      \cup FaultInputs({"accounts", "clock"}, ReceiveData(2, SmallPayload, 1))

ResponseInputs(acc) ==
    CleanInputs({"A"}, ResponseRequests(acc))
      \cup DefectInputs({ResponseData(2, Bytes(<<2>>, 0), acc.rec.message_id)})
      \cup FaultInputs({"accounts", "clock"},
                       ResponseData(2, Bytes(<<2>>, 0), acc.rec.message_id))

\* an initialized config, one with the flag cleared, one in an account longer
\* than a ProgramConfig
InitializedConfig ==
    [is_initialized |-> TRUE, admin |-> Admin,
     layerzero_endpoint |-> TrustedEndpoint, fee_account |-> FeeAccount,
     solana_chain_id |-> 7]

ConfigAccounts ==
    {[cap |-> ConfigLen, val |-> InitializedConfig],
     [cap |-> ConfigLen, val |-> [InitializedConfig EXCEPT !.is_initialized = FALSE]],
     [cap |-> ConfigLen + 8, val |-> InitializedConfig]}

\* accounts the program owns start zero-filled
OwnedCaps == {0, 80, 84, 96}

Crafted(status, response_data) ==
    [is_initialized |-> TRUE,
     message_id |-> generate_id(CrossChainMessage_new(2, 7, 1, SmallPayload, 0, None)),
     source_chain_id |-> 2, destination_chain_id |-> 7, message_type |-> 1,
     sender |-> "B", status |-> status, timestamp |-> 0,
     response_data |-> response_data]

\* records in accounts that another program owns and filled
CraftedRecords ==
    {Crafted(st, None) : st \in {Pending, InFlight, Delivered, Failed}}
      \cup {Crafted(st, Some(SmallPayload)) : st \in {Pending, Completed}}

MessageAccounts ==
    {[owned |-> TRUE, cap |-> c, rec |-> ZeroRecord] : c \in OwnedCaps}
      \cup {[owned |-> FALSE, cap |-> RecordLen(r), rec |-> r] : r \in CraftedRecords}

----------------------------------------------------------------------------
(* The state machine *)

\* the last instruction: its inputs, the record that was in the account before
\* it (pre), what the handler returned and left behind, and whether the
\* runtime kept what the handler wrote
NoCall ==
    [op |-> "None", signer |-> ZeroKey, is_signer |-> FALSE, data |-> None,
     instruction_data |-> <<>>,
     endpoint |-> ZeroKey, fault |-> "none", now |-> 0, pre |-> ZeroRecord,
     res |-> "Ok", buf |-> ZeroRecord, wrote |-> "no", disp |-> <<>>,
     fee |-> None, verified |-> FALSE, committed |-> FALSE]

Call(op, in, now, acc, out) ==
    [op |-> op, signer |-> in.signer, is_signer |-> in.is_signer,
     data |-> in.data,
     instruction_data |-> IF op = "Malformed" THEN in.instruction_data
                          ELSE InstructionData(OpTag(op), op, in.data),
     endpoint |-> in.endpoint, fault |-> in.fault,
     now |-> now, pre |-> acc.rec,
     res |-> out.res, buf |-> out.buf, wrote |-> out.wrote, disp |-> out.disp,
     fee |-> out.fee, verified |-> out.verified,
     committed |-> Committed(acc, out)]

\* a call with every account in place that passes the checks made before the
\* record is looked at
PassesChecks(c) ==
    /\ c.fault = "none"
    /\ c.is_signer
    /\ c.data # None
    /\ ConfigParses(config)
    /\ config.val.is_initialized
    /\ config.val.layerzero_endpoint = c.endpoint

NoScenario == [stage |-> 0, req |-> None, first_ok |-> FALSE]

\* the scenario Receive r, Receive r, ProcessResponse of r's id, Receive r;
\* first_ok: the first Receive returned Ok and was kept
ScenarioStep(c) ==
    IF ~PassesChecks(c) THEN NoScenario
    ELSE IF c.op = "Receive"
    THEN IF scn.req = c.data /\ scn.stage \in {1, 2}
         THEN [scn EXCEPT !.stage = 2]
         ELSE IF scn.req = c.data /\ scn.stage = 3
         THEN [scn EXCEPT !.stage = 4]
         ELSE [stage |-> 1, req |-> c.data,
               first_ok |-> c.res = "Ok" /\ c.committed]
    ELSE IF /\ c.op = "ProcessResponse"
            /\ scn.stage = 2
            /\ c.data[1].original_message_id
                 = generate_id(ReceivedMessage(scn.req[1], config))
    THEN [scn EXCEPT !.stage = 3]
    ELSE NoScenario

\* no pure function evaluated
NoCalc == [fn |-> "none", in |-> <<>>, out |-> <<>>]

Init ==
    /\ clock = 0
    /\ config \in ConfigAccounts
    /\ slot \in MessageAccounts
    /\ last = NoCall
    /\ origin = IF slot.owned THEN "none" ELSE "crafted"
    /\ scn = NoScenario
    /\ calc = NoCalc

\* the instruction `op` on input `in` with handler result `out`
Instruction(op, in, out) ==
    LET c == Call(op, in, clock, slot, out)
    IN  /\ last' = c
        /\ slot' = Commit(slot, out)
        /\ origin' = IF c.committed /\ out.wrote = "record" /\ out.buf # slot.rec
                        /\ (op \in {"Send", "Query"} \/ data_is_empty(slot))
                     THEN op ELSE origin
        /\ scn' = ScenarioStep(c)
        /\ config' = ConfigAfter(config, out)
        /\ UNCHANGED <<clock, calc>>

Send ==
    \E in \in SendInputs :
        Instruction("Send", in,
            process_instruction(slot, in.signer, in.is_signer,
                                InstructionData(OpTag("Send"), "Send", in.data),
                                config, in.endpoint, clock, in.fault))

Query ==
    \E in \in QueryInputs :
        Instruction("Query", in,
            process_instruction(slot, in.signer, in.is_signer,
                                InstructionData(OpTag("Query"), "Query", in.data),
                                config, in.endpoint, clock, in.fault))

Receive ==
    \E in \in ReceiveInputs :
        Instruction("Receive", in,
            process_instruction(slot, in.signer, in.is_signer,
                                InstructionData(OpTag("Receive"), "Receive", in.data),
                                config, in.endpoint, clock, in.fault))

ProcessResponse ==
    \E in \in ResponseInputs(slot) :
        Instruction("ProcessResponse", in,
            process_instruction(slot, in.signer, in.is_signer,
                                InstructionData(OpTag("ProcessResponse"),
                                                "ProcessResponse", in.data),
                                config, in.endpoint, clock, in.fault))

\* instruction data that is empty or starts with a byte above 3
MalformedInputs ==
    {[signer |-> "A", is_signer |-> sg, endpoint |-> TrustedEndpoint,
      fault |-> "none", data |-> None, instruction_data |-> d] :
        sg \in BOOLEAN,
        d \in {<<>>}
              \cup {InstructionData(t, "Send", Some(SendData(2, SmallPayload))) :
                       t \in {4, 255}}
              \cup {InstructionData(t, "Receive",
                                    Some(ReceiveData(2, SmallPayload, 1))) :
                       t \in {4, 255}}}

Malformed ==
    \E in \in MalformedInputs :
        Instruction("Malformed", in,
            process_instruction(slot, in.signer, in.is_signer, in.instruction_data,
                                config, in.endpoint, clock, in.fault))

\* the Clock sysvar moves on
Tick ==
    /\ clock < MaxClock
    /\ clock' = clock + 1
    /\ UNCHANGED <<config, slot, last, origin, scn, calc>>

Next == Send \/ Query \/ Receive \/ ProcessResponse \/ Malformed \/ Tick

Spec == Init /\ [][Next]_vars

----------------------------------------------------------------------------
(* The pure functions of layerzero.rs, evaluated on pairs of inputs *)

\* chain ids on both sides of a byte boundary, two types, two nonces, payloads
\* of 0, 1 and 2 bytes with and without a trailing zero, with and without
\* options
IdMessages ==
    {CrossChainMessage_new(s, d, t, p, n, o) :
        s \in {1, 256}, d \in {2, 512}, t \in {1, 2}, n \in {0, 1},
        p \in {Bytes(<<>>, 0), Bytes(<<>>, 1), Bytes(<<1>>, 0), Bytes(<<1>>, 1)},
        o \in {None, Some(MessageOptions(10000, "A"))}}

\* destination chains of every row of the fee table and two others, payload
\* sizes up to the largest a Send accepts, gas limits around the divisor
FeeInputs ==
    [destination_chain_id : 0..5,
     payload_size : {0, 1, MaxPayloadLen},
     gas_limit : {0, 999, 1000, 200000}]

InitCalc ==
    /\ clock = 0
    /\ config = [cap |-> ConfigLen, val |-> InitializedConfig]
    /\ slot = [owned |-> TRUE, cap |-> 0, rec |-> ZeroRecord]
    /\ last = NoCall
    /\ origin = "none"
    /\ scn = NoScenario
    /\ calc = NoCalc

\* CrossChainMessage::generate_id on two messages
GenerateId ==
    /\ calc = NoCalc
    /\ \E a, b \in IdMessages :
           calc' = [fn |-> "generate_id", in |-> <<a, b>>,
                    out |-> <<generate_id(a), generate_id(b)>>]
    /\ UNCHANGED <<clock, config, slot, last, origin, scn>>

\* get_fee_quote on two inputs
FeeQuote ==
    /\ calc = NoCalc
    /\ \E x, y \in FeeInputs :
           calc' = [fn |-> "get_fee_quote", in |-> <<x, y>>,
                    out |-> <<get_fee_quote(x.destination_chain_id, x.payload_size,
                                            MessageOptions(x.gas_limit, "A")),
                              get_fee_quote(y.destination_chain_id, y.payload_size,
                                            MessageOptions(y.gas_limit, "A"))>>]
    /\ UNCHANGED <<clock, config, slot, last, origin, scn>>

\* send_to_endpoint on a message with or without options, the invoked
\* program working or failing
SendToEndpoint ==
    /\ calc = NoCalc
    /\ \E m \in IdMessages, f \in {"none", "invoke"} :
           calc' = [fn |-> "send_to_endpoint", in |-> <<m, f>>,
                    out |-> <<send_to_endpoint(m, DestinationAddress, f)>>]
    /\ UNCHANGED <<clock, config, slot, last, origin, scn>>

\* send_message::process on every account and input of the model
SendMessage ==
    /\ calc = NoCalc
    /\ \E acc \in MessageAccounts, in \in SendInputs :
           calc' = [fn |-> "send_message", in |-> <<acc, in>>,
                    out |-> <<send_message_process(acc, in.signer, in.is_signer,
                                                   in.data, config, in.endpoint,
                                                   clock, in.fault)>>]
    /\ UNCHANGED <<clock, config, slot, last, origin, scn>>

\* query_data::process on every account and input of the model
QueryDataProcess ==
    /\ calc = NoCalc
    /\ \E acc \in MessageAccounts, in \in QueryInputs :
           calc' = [fn |-> "query_data", in |-> <<acc, in>>,
                    out |-> <<query_data_process(acc, in.signer, in.is_signer,
                                                 in.data, config, in.endpoint,
                                                 clock, in.fault)>>]
    /\ UNCHANGED <<clock, config, slot, last, origin, scn>>

\* gas limits from 0 to 2^64 - 1
WideGasLimits ==
    {ToU64(0), ToU64(999), ToU64(1000), ToU64(200000),
     <<0, 0, LimbBase - 1, LimbBase - 1>>, <<0, 1, 0, 0>>,
     <<LimbBase \div 2, 0, 0, 0>>,
     <<LimbBase - 1, LimbBase - 1, LimbBase - 1, LimbBase - 1>>}

\* get_fee_quote on a gas limit of any width
FeeQuoteU64 ==
    /\ calc = NoCalc
    /\ \E d \in 0..5, n \in {0, 1, MaxPayloadLen}, g \in WideGasLimits :
           calc' = [fn |-> "get_fee_quote_u64",
                    in |-> <<[destination_chain_id |-> d, payload_size |-> n,
                              gas_limit |-> g]>>,
                    out |-> <<get_fee_quote_u64(d, n, g)>>]
    /\ UNCHANGED <<clock, config, slot, last, origin, scn>>

\* a variant to its program error code and back
ErrorCode ==
    /\ calc = NoCalc
    /\ \E i \in 1..Len(SolanaOpenApiError) :
           calc' = [fn |-> "error_code", in |-> <<SolanaOpenApiError[i]>>,
                    out |-> <<ProgramErrorCode(SolanaOpenApiError[i]),
                              from_u64(ProgramErrorCode(SolanaOpenApiError[i]))>>]
    /\ UNCHANGED <<clock, config, slot, last, origin, scn>>

OtherDestinationAddress == Bytes(<<171>>, 0)

\* outbound calls that differ in sender, destination address, gas limit,
\* destination chain, payload and clock
OutboundCalls ==
    {[op |-> "Send", now |-> n,
      in |-> Input(s, TRUE, TrustedEndpoint, "none",
                   Some([SendData(d, p) EXCEPT !.destination_address = a,
                                               !.gas_limit = g]))] :
        s \in {"A", "B"}, a \in {DestinationAddress, OtherDestinationAddress},
        g \in {2000, 10000}, d \in {2, 3},
        p \in {SmallPayload, Bytes(<<2>>, 0)}, n \in {0, 1}}
      \cup
    {[op |-> "Query", now |-> n,
      in |-> Input(s, TRUE, TrustedEndpoint, "none",
                   Some([QueryData(d, e) EXCEPT !.destination_address = a,
                                                !.gas_limit = g]))] :
        s \in {"A", "B"}, a \in {DestinationAddress, OtherDestinationAddress},
        g \in {2000, 10000}, d \in {2, 3},
        e \in {None, Some(Bytes(<<5>>, 0))}, n \in {0, 1}}

\* the handler of an outbound call on a zero-filled account of the program
\* that a record without response fills
OutboundCall(x) ==
    LET acc == [owned |-> TRUE, cap |-> RecordLen(ZeroRecord), rec |-> ZeroRecord]
    IN  IF x.op = "Send"
        THEN send_message_process(acc, x.in.signer, x.in.is_signer, x.in.data,
                                  config, x.in.endpoint, x.now, x.in.fault)
        ELSE query_data_process(acc, x.in.signer, x.in.is_signer, x.in.data,
                                config, x.in.endpoint, x.now, x.in.fault)

\* two Sends, or two Queries, each on an account of its own
OutboundPair ==
    /\ calc = NoCalc
    /\ \E x, y \in OutboundCalls :
           /\ x.op = y.op
           /\ calc' = [fn |-> "outbound_pair", in |-> <<x, y>>,
                        out |-> <<OutboundCall(x), OutboundCall(y)>>]
    /\ UNCHANGED <<clock, config, slot, last, origin, scn>>

NextCalc ==
    \/ GenerateId
    \/ FeeQuote
    \/ SendToEndpoint
    \/ SendMessage
    \/ QueryDataProcess
    \/ OutboundPair
    \/ FeeQuoteU64
    \/ ErrorCode

SpecCalc == InitCalc /\ [][NextCalc]_vars

----------------------------------------------------------------------------
(* Properties.  They are stated on the last instruction: last.pre is the   *)
(* record before it, slot.rec the record after it.                          *)

\* the message account as the last instruction found it
PreAccount == [slot EXCEPT !.rec = last.pre]

\* the last instruction left the account and its buffer as they were
RecordUntouched ==
    slot.rec = last.pre /\ last.buf = last.pre /\ last.wrote = "no"

\* the id receive_message::process derives from the last request
ReceiveId == generate_id(ReceivedMessage(last.data[1], config))

\* the id send_message::process or query_data::process derives from the last
\* request
OutboundId ==
    generate_id(
        CrossChainMessage_new(
            config.val.solana_chain_id, last.data[1].destination_chain_id,
            IF last.op = "Send" THEN last.data[1].message_type
            ELSE last.data[1].query_params.query_type,
            IF last.op = "Send" THEN last.data[1].payload
            ELSE QueryParamsBytes(last.data[1].query_params),
            last.now, None))

\* C1: a ProcessResponse on a record that is Completed, with a valid signer,
\* an initialized config, the trusted endpoint and the record's message_id,
\* fails with MessageAlreadyProcessed and leaves every field of the record,
\* response_data included, as it was.
C1_CompletedResponseRejected ==
    (/\ last.op = "ProcessResponse"
     /\ PassesChecks(last)
     /\ RecordParses(PreAccount)
     /\ last.pre.status = Completed
     /\ last.data[1].original_message_id = last.pre.message_id)
    => (last.res = "MessageAlreadyProcessed" /\ RecordUntouched)

C1_Witness ==
    /\ last.op = "ProcessResponse"
    /\ PassesChecks(last)
    /\ last.pre.status = Completed
    /\ last.pre.response_data # None
    /\ last.data[1].original_message_id = last.pre.message_id
    /\ last.data[1].response_payload # last.pre.response_data[1]
    /\ last.res = "MessageAlreadyProcessed"

\* C2: a Receive whose derived id is the message_id of a Completed record
\* fails with MessageAlreadyProcessed and leaves the record as it was; and
\* after Receive r, Receive r, ProcessResponse for r's id, Receive r on an
\* account of the program, the last call has failed with
\* MessageAlreadyProcessed and the record is Completed.
C2_ReplayAfterCompletionRejected ==
    /\ (/\ last.op = "Receive"
        /\ PassesChecks(last)
        /\ RecordParses(PreAccount)
        /\ last.pre.status = Completed
        /\ last.pre.message_id = ReceiveId)
       => (last.res = "MessageAlreadyProcessed" /\ RecordUntouched)
    /\ (scn.stage = 4 /\ slot.owned)
       => (last.res = "MessageAlreadyProcessed" /\ slot.rec.status = Completed)

\* C3: when a Receive has returned Ok and left the record Delivered, the same
\* Receive again returns Ok and leaves the record Delivered, every field as it
\* was.
C3_ReceiveIdempotentOnDelivered ==
    (/\ scn.stage = 2
     /\ scn.first_ok
     /\ last.pre.status = Delivered)
    => (last.res = "Ok" /\ last.committed /\ slot.rec = last.pre
          /\ last.buf = last.pre)

C3_Witness ==
    /\ scn.stage = 2
    /\ scn.first_ok
    /\ slot.owned
    /\ last.pre.status = Delivered
    /\ last.res = "Ok"
    /\ slot.rec.status = Delivered

\* C4: a Query that succeeded left a Pending record with the local chain, the
\* destination and the query type of the request; and a ProcessResponse from
\* the destination chain that names the message_id of a Pending record a Query
\* created succeeds and leaves the record Completed.
C4_QueryResponseRoundTrip ==
    /\ (last.op = "Query" /\ last.res = "Ok" /\ last.committed)
       => /\ slot.rec.status = Pending
          /\ slot.rec.source_chain_id = config.val.solana_chain_id
          /\ slot.rec.destination_chain_id = last.data[1].destination_chain_id
          /\ slot.rec.message_type = last.data[1].query_params.query_type
    /\ (/\ last.op = "ProcessResponse"
        /\ PassesChecks(last)
        /\ slot.owned
        /\ origin = "Query"
        /\ last.pre.status = Pending
        /\ last.data[1].original_message_id = last.pre.message_id
        /\ last.data[1].source_chain_id = last.pre.destination_chain_id
        /\ config.val.solana_chain_id = last.pre.source_chain_id)
       => (last.res = "Ok" /\ slot.rec.status = Completed)

C6_ResubmissionRejected ==
    (/\ last.op \in {"Send", "Query"}
     /\ PassesChecks(last)
     /\ slot.owned
     /\ last.pre.is_initialized
     /\ last.pre.sender = last.signer
     /\ last.pre.message_id = OutboundId)
    => (last.res = "AlreadyExists" /\ RecordUntouched /\ last.disp = <<>>)

\* C7: an instruction on a slot that holds a record leaves message_id,
\* source_chain_id, destination_chain_id, message_type, sender and timestamp
\* as they were and the record in place; only Receive and ProcessResponse
\* change the record at all.
C7_RecordIdentityImmutable ==
    (last.op # "None" /\ last.pre.is_initialized)
    => /\ slot.rec.is_initialized
       /\ slot.rec.message_id = last.pre.message_id
       /\ slot.rec.source_chain_id = last.pre.source_chain_id
       /\ slot.rec.destination_chain_id = last.pre.destination_chain_id
       /\ slot.rec.message_type = last.pre.message_type
       /\ slot.rec.sender = last.pre.sender
       /\ slot.rec.timestamp = last.pre.timestamp
       /\ slot.rec # last.pre => last.op \in {"Receive", "ProcessResponse"}

\* Pending or InFlight to Delivered; Pending, InFlight or Delivered to
\* Completed; Pending, InFlight or Delivered to Failed
AllowedTransition(from, to) ==
    \/ from \in {Pending, InFlight} /\ to = Delivered
    \/ from \in {Pending, InFlight, Delivered} /\ to = Completed
    \/ from \in {Pending, InFlight, Delivered} /\ to = Failed

\* C8: when an instruction changes the status of the record of a message (the
\* message_id stays), the change is an allowed transition.
C8_OnlyAllowedTransitions ==
    (/\ last.op # "None"
     /\ last.pre.is_initialized
     /\ slot.rec.message_id = last.pre.message_id
     /\ slot.rec.status # last.pre.status)
    => AllowedTransition(last.pre.status, slot.rec.status)

\* the last call came with every account in place, signed, decodable and,
\* for a Send, with a payload of at most 10000 bytes
PassesRequestChecks ==
    /\ last.fault # "accounts"
    /\ last.is_signer
    /\ last.data # None
    /\ last.op = "Send" => BLen(last.data[1].payload) <= MaxPayloadLen

\* the last call failed, wrote nothing and sent nothing to the endpoint
FailedClosed ==
    /\ last.res # "Ok"
    /\ RecordUntouched
    /\ last.disp = <<>>
    /\ ~last.verified

\* C9 as stated: whenever the config's flag is false, the call fails with
\* AccountNotInitialized, writes no record and dispatches nothing.
C9_AsStated ==
    (/\ last.op # "None"
     /\ last.fault = "none"
     /\ ConfigParses(config)
     /\ ~config.val.is_initialized)
    => (last.res = "AccountNotInitialized" /\ FailedClosed)

\* C9: with the config's flag false every call fails, writes no record and
\* dispatches nothing; a call that is signed and decodable (for a Send, with
\* a payload of at most 10000 bytes) fails with AccountNotInitialized, whatever
\* endpoint it names.
C9_UninitializedConfigFailsClosed ==
    (/\ last.op # "None"
     /\ ConfigParses(config)
     /\ ~config.val.is_initialized)
    => /\ FailedClosed
       /\ PassesRequestChecks => last.res = "AccountNotInitialized"

C9_Witness ==
    /\ last.op # "None"
    /\ ConfigParses(config)
    /\ ~config.val.is_initialized
    /\ PassesRequestChecks
    /\ last.endpoint # config.val.layerzero_endpoint
    /\ last.res = "AccountNotInitialized"

\* C10 as stated: whenever the config is initialized and the endpoint of the
\* call is not the config's, the call fails with InvalidEndpoint, writes no
\* record, dispatches nothing and verifies nothing.
C10_AsStated ==
    (/\ last.op # "None"
     /\ last.fault = "none"
     /\ ConfigParses(config)
     /\ config.val.is_initialized
     /\ last.endpoint # config.val.layerzero_endpoint)
    => (last.res = "InvalidEndpoint" /\ FailedClosed)

\* C10: with an initialized config and another endpoint than the config's
\* every call fails, writes no record, dispatches nothing and verifies
\* nothing; a call that is signed and decodable (for a Send, with a payload
\* of at most 10000 bytes) fails with InvalidEndpoint.
C10_WrongEndpointFailsClosed ==
    (/\ last.op # "None"
     /\ ConfigParses(config)
     /\ config.val.is_initialized
     /\ last.endpoint # config.val.layerzero_endpoint)
    => /\ FailedClosed
       /\ PassesRequestChecks => last.res = "InvalidEndpoint"

C10_Witness ==
    /\ last.op \in {"Send", "Query"}
    /\ ConfigParses(config)
    /\ config.val.is_initialized
    /\ last.endpoint # config.val.layerzero_endpoint
    /\ PassesRequestChecks
    /\ last.pre.is_initialized
    /\ last.res = "InvalidEndpoint"

\* the payload of the message the last Send or Query builds
OutboundPayload ==
    IF last.op = "Send" THEN last.data[1].payload
    ELSE QueryParamsBytes(last.data[1].query_params)

\* C11: a Send or Query that passes the signer, decoding and config checks and
\* whose message payload is longer than 10000 bytes fails with
\* PayloadTooLarge, leaves the record as it was and dispatches nothing; and a
\* Send or Query that succeeded had a payload of at most 10000 bytes.
C11_OversizedPayloadRejected ==
    /\ (/\ last.op \in {"Send", "Query"}
        /\ PassesChecks(last)
        /\ BLen(OutboundPayload) > MaxPayloadLen)
       => (last.res = "PayloadTooLarge" /\ RecordUntouched /\ last.disp = <<>>)
    /\ (last.op \in {"Send", "Query"} /\ last.res = "Ok")
       => BLen(OutboundPayload) <= MaxPayloadLen

\* C12: every step of a handler that can fail comes before its first write
\* to the message account: a call that returns an error has written nothing,
\* and the record is as it was before the call.
C12_FallibleStepsPrecedeWrites ==
    (last.op # "None" /\ last.res # "Ok")
    => (last.wrote = "no" /\ last.buf = last.pre /\ slot.rec = last.pre)

\* C13: a Receive that passes the signer, decoding and config checks, on an
\* account of the program that holds no record yet, succeeds and leaves a
\* Delivered record: sender the relayer, source chain of the request,
\* destination the local chain, type of the request, no response.
C13_FirstReceiveCreatesDelivered ==
    (/\ last.op = "Receive"
     /\ PassesChecks(last)
     /\ slot.owned
     /\ ~last.pre.is_initialized)
    => /\ last.res = "Ok"
       /\ slot.rec.is_initialized
       /\ slot.rec.status = Delivered
       /\ slot.rec.sender = last.signer
       /\ slot.rec.source_chain_id = last.data[1].source_chain_id
       /\ slot.rec.destination_chain_id = config.val.solana_chain_id
       /\ slot.rec.message_type = last.data[1].message_type
       /\ slot.rec.response_data = None

\* C14: a Send that succeeded has written the record (initialized, Pending,
\* local chain id as source, destination and type of the request, the signer
\* as sender, the clock timestamp as timestamp, no response) whose message_id
\* is derived from (local chain, destination, type, timestamp, payload); in
\* an account of the program that record is the one kept.
C14_SendRecordFields ==
    (last.op = "Send" /\ last.res = "Ok")
    => /\ last.buf = [is_initialized |-> TRUE,
                      message_id |-> OutboundId,
                      source_chain_id |-> config.val.solana_chain_id,
                      destination_chain_id |-> last.data[1].destination_chain_id,
                      message_type |-> last.data[1].message_type,
                      sender |-> last.signer,
                      status |-> Pending,
                      timestamp |-> last.now,
                      response_data |-> None]
       /\ slot.owned => slot.rec = last.buf

C14_Witness ==
    /\ last.op = "Send"
    /\ last.res = "Ok"
    /\ last.committed
    /\ slot.owned
    /\ last.now = 1
    /\ slot.rec.status = Pending
    /\ slot.rec.timestamp = 1
    /\ slot.rec.destination_chain_id = 2

\* the two messages agree on source chain, destination chain, type, nonce
\* and payload
SameIdentityFields(a, b) ==
    /\ a.source_chain_id = b.source_chain_id
    /\ a.destination_chain_id = b.destination_chain_id
    /\ a.message_type = b.message_type
    /\ a.nonce = b.nonce
    /\ a.payload = b.payload

\* C15: generate_id hashes 17 bytes of fixed-width fields followed by the
\* payload; messages that agree on (source, destination, type, nonce,
\* payload) get the same id whatever their options, and messages that differ
\* in one of the five get different hashed byte strings.
C15_IdentityOfFields ==
    calc.fn = "generate_id"
    => LET a == calc.in[1]
           b == calc.in[2]
       IN  /\ BLen(calc.out[1].sha256) = 4 + 4 + 1 + 8 + BLen(a.payload)
           /\ SameIdentityFields(a, b) => calc.out[1] = calc.out[2]
           /\ ~SameIdentityFields(a, b) => calc.out[1].sha256 # calc.out[2].sha256

C15_Witness ==
    /\ calc.fn = "generate_id"
    /\ calc.in[1].nonce = 0 /\ calc.in[1].payload = Bytes(<<1>>, 0)
    /\ calc.in[2].nonce = 1 /\ calc.in[2].payload = Bytes(<<>>, 0)
    /\ calc.in[1].source_chain_id = calc.in[2].source_chain_id
    /\ calc.in[1].destination_chain_id = calc.in[2].destination_chain_id
    /\ calc.in[1].message_type = calc.in[2].message_type
    /\ calc.out[1] # calc.out[2]

\* C20: the fee quote is base(destination) + payload_size * 100
\* + gas_limit div 1000, with base 1000000, 500000, 600000, 400000 for the
\* chains 1, 2, 3, 4 and 800000 for any other; with the destination fixed it
\* does not decrease when payload_size and gas_limit do not.
C20_FeeQuoteFormula ==
    calc.fn = "get_fee_quote"
    => LET x == calc.in[1]
           y == calc.in[2]
           base == IF x.destination_chain_id = 1 THEN 1000000
                   ELSE IF x.destination_chain_id = 2 THEN 500000
                   ELSE IF x.destination_chain_id = 3 THEN 600000
                   ELSE IF x.destination_chain_id = 4 THEN 400000
                   ELSE 800000
       IN  /\ calc.out[1] = base + x.payload_size * 100 + x.gas_limit \div 1000
           /\ x = y => calc.out[1] = calc.out[2]
           /\ (/\ x.destination_chain_id = y.destination_chain_id
               /\ x.payload_size <= y.payload_size
               /\ x.gas_limit <= y.gas_limit)
              => calc.out[1] <= calc.out[2]

C20_Witness ==
    /\ calc.fn = "get_fee_quote"
    /\ calc.in[1] = [destination_chain_id |-> 4, payload_size |-> 1,
                     gas_limit |-> 999]
    /\ calc.in[2] = [destination_chain_id |-> 4, payload_size |-> MaxPayloadLen,
                     gas_limit |-> 200000]
    /\ calc.out = <<400100, 1400200>>

\* C16: a Send, Query, Receive or ProcessResponse whose accounts are all
\* supplied and whose sender or relayer did not sign fails with Unauthorized,
\* writes nothing, dispatches nothing and verifies nothing.
C16_UnsignedCallUnauthorized ==
    (/\ last.op \in {"Send", "Query", "Receive", "ProcessResponse"}
     /\ last.fault # "accounts"
     /\ ~last.is_signer)
    => (last.res = "Unauthorized" /\ FailedClosed)

C16_Witness ==
    /\ last.op = "ProcessResponse"
    /\ ~last.is_signer
    /\ last.fault = "none"
    /\ last.data # None
    /\ ConfigError(config, last.endpoint) = "Ok"
    /\ last.pre.is_initialized
    /\ last.data[1].original_message_id = last.pre.message_id
    /\ last.res = "Unauthorized"

\* C17: a ProcessResponse that passes the signer, decoding and config checks
\* and names another id than the message_id of the record the account holds
\* fails with MessageNotFound and leaves the record as it was; a
\* ProcessResponse that succeeded named the record's message_id.
C17_ResponseForOtherIdNotFound ==
    /\ (/\ last.op = "ProcessResponse"
        /\ PassesChecks(last)
        /\ RecordParses(PreAccount)
        /\ last.data[1].original_message_id # last.pre.message_id)
       => (last.res = "MessageNotFound" /\ RecordUntouched)
    /\ (last.op = "ProcessResponse" /\ last.res = "Ok")
       => last.data[1].original_message_id = last.pre.message_id

C17_Witness ==
    /\ last.op = "ProcessResponse"
    /\ PassesChecks(last)
    /\ last.pre.is_initialized
    /\ last.pre.status = Pending
    /\ last.pre.response_data # None
    /\ last.data[1].original_message_id = OtherId
    /\ last.res = "MessageNotFound"

\* C18: a Query to destination chain 0 that passes the signer, decoding and
\* config checks fails with InvalidDestinationChain, writes nothing and
\* dispatches nothing; and no Send or Query that succeeded left a record with
\* destination chain 0.
C18_NoOutboundToChainZero ==
    /\ (/\ last.op = "Query"
        /\ PassesChecks(last)
        /\ last.data[1].destination_chain_id = 0)
       => /\ last.res = "InvalidDestinationChain"
          /\ RecordUntouched
          /\ last.disp = <<>>
    /\ (last.op \in {"Send", "Query"} /\ last.res = "Ok" /\ last.committed)
       => slot.rec.destination_chain_id # 0

\* C19: a ProcessResponse that succeeded has written the record it found
\* with response_data = the response_payload of the request and status
\* Completed, every other field as it was; when the write is kept, that is
\* the record of the account.
C19_ResponseFrame ==
    (last.op = "ProcessResponse" /\ last.res = "Ok")
    => /\ last.buf = [last.pre EXCEPT
                         !.response_data = Some(last.data[1].response_payload),
                         !.status = Completed]
       /\ last.committed => slot.rec = last.buf

C19_Witness ==
    /\ last.op = "ProcessResponse"
    /\ last.res = "Ok"
    /\ last.pre.status = Pending
    /\ last.pre.response_data # Some(last.data[1].response_payload)
    /\ last.buf.status = Completed
    /\ last.buf.response_data = Some(last.data[1].response_payload)

\* the quote get_fee_quote gives for the last Send or Query
OutboundFee ==
    get_fee_quote(last.data[1].destination_chain_id, BLen(OutboundPayload),
                  MessageOptions(last.data[1].gas_limit, last.signer))

\* C21: a Send or Query that has sent its instruction to the endpoint had
\* the fee quoted first, and a Send or Query that got a quote, whatever its
\* amount, went on to send the instruction to the endpoint.
C21_FeeQuotedThenDispatched ==
    last.op \in {"Send", "Query"}
    => /\ last.disp # <<>> => last.fee = Some(OutboundFee)
       /\ last.fee # None => Len(last.disp) = 1

C21_Witness ==
    /\ last.op = "Send"
    /\ last.res = "Ok"
    /\ BLen(last.data[1].payload) = MaxPayloadLen
    /\ last.fee = Some(1800010)
    /\ Len(last.disp) = 1

\* C22: a Send or Query that succeeded sent the endpoint one instruction:
\* destination chain and address of the request, the payload of the message,
\* options with the gas_limit of the request and the sender as refund
\* address; a Receive or ProcessResponse sends the endpoint nothing.
C22_OnlyOutboundDispatches ==
    /\ (last.op \in {"Send", "Query"} /\ last.res = "Ok")
       => last.disp
            = <<[destination_chain_id |-> last.data[1].destination_chain_id,
                 destination_address |-> last.data[1].destination_address,
                 payload |-> OutboundPayload,
                 options |-> [gas_limit |-> last.data[1].gas_limit,
                              refund_address |-> last.signer,
                              executor_options |-> Bytes(<<>>, 0),
                              receiver_options |-> Bytes(<<>>, 0)]]>>
    /\ last.op \in {"Receive", "ProcessResponse"} => last.disp = <<>>

C22_Witness ==
    /\ last.op = "Send"
    /\ last.res = "Ok"
    /\ last.signer = "B"
    /\ last.data[1].gas_limit = 2000
    /\ Len(last.disp) = 1
    /\ last.disp[1].options.refund_address = "B"
    /\ last.disp[1].options.gas_limit = 2000
    /\ last.disp[1].destination_address = DestinationAddress

\* C23: no step of the program, a call that succeeds or one that fails,
\* changes the config account.
C23_ConfigReadOnly == [][config' = config]_vars

C23_Witness ==
    /\ last.op = "Send"
    /\ last.res = "Ok"
    /\ last.committed
    /\ slot.rec.status = Pending
    /\ config = [cap |-> ConfigLen, val |-> InitializedConfig]

\* C24: after a Send or Query that failed when it invoked the endpoint, the
\* account holds the record of that message, in status Pending.
C24_FailedDispatchLeavesPending ==
    (/\ last.op \in {"Send", "Query"}
     /\ last.disp # <<>>
     /\ last.res # "Ok")
    => /\ slot.rec.is_initialized
       /\ slot.rec.message_id = OutboundId
       /\ slot.rec.status = Pending

\* C25: send_to_endpoint on a message without options fails with
\* InvalidMessageOptions and invokes nothing; send_message::process and
\* query_data::process never return that error, and whenever they have
\* written the record they go on to invoke the endpoint.
C25_MissingOptionsOnlyInDispatch ==
    /\ (calc.fn = "send_to_endpoint" /\ calc.in[1].options = None)
       => calc.out[1] = [res |-> "InvalidMessageOptions", disp |-> <<>>]
    /\ calc.fn \in {"send_message", "query_data"}
       => /\ calc.out[1].res # "InvalidMessageOptions"
          /\ calc.out[1].wrote = "record" => Len(calc.out[1].disp) = 1

C25_Witness ==
    /\ calc.fn = "send_to_endpoint"
    /\ calc.in[1].options = None
    /\ calc.in[2] = "none"
    /\ calc.out[1].res = "InvalidMessageOptions"

\* the record the last Send or Query builds
OutboundRecord ==
    MessageRecord_new(OutboundId, config.val.solana_chain_id,
                      last.data[1].destination_chain_id,
                      IF last.op = "Send" THEN last.data[1].message_type
                      ELSE last.data[1].query_params.query_type,
                      last.signer, last.now)

\* the last call got as far as building the record of an outbound message
ReachesOutboundWrite ==
    /\ last.op \in {"Send", "Query"}
    /\ PassesChecks(last)
    /\ last.op = "Send" => BLen(OutboundPayload) <= MaxPayloadLen
    /\ last.op = "Query" => last.data[1].destination_chain_id # 0

\* the last call is a ProcessResponse that got as far as writing the response
ReachesResponseWrite ==
    /\ last.op = "ProcessResponse"
    /\ PassesChecks(last)
    /\ RecordParses(PreAccount)
    /\ last.data[1].original_message_id = last.pre.message_id
    /\ last.pre.status # Completed

\* C26: a Send, Query, Receive or ProcessResponse that comes to write a
\* record longer than the account's buffer fails with AccountDataTooSmall,
\* and the account holds afterwards the record it held before.
C26_RecordTooLargeForAccount ==
    /\ (ReachesOutboundWrite /\ RecordLen(OutboundRecord) > slot.cap)
       => (last.res = "AccountDataTooSmall" /\ slot.rec = last.pre)
    /\ (last.op = "Receive" /\ PassesChecks(last) /\ data_is_empty(slot))
       => (last.res = "AccountDataTooSmall" /\ slot.rec = last.pre)
    /\ (/\ ReachesResponseWrite
        /\ RecordLen(set_response(last.pre, last.data[1].response_payload))
             > slot.cap)
       => (last.res = "AccountDataTooSmall" /\ slot.rec = last.pre)

C26_Witness ==
    /\ ReachesResponseWrite
    /\ slot.owned
    /\ last.pre.is_initialized
    /\ last.pre.status = Delivered
    /\ RecordLen(set_response(last.pre, last.data[1].response_payload)) > slot.cap
    /\ last.res = "AccountDataTooSmall"
    /\ slot.rec.status = Delivered

C28_ReceiveForOtherRecord ==
    (/\ last.op = "Receive"
     /\ PassesChecks(last)
     /\ RecordParses(PreAccount)
     /\ last.pre.is_initialized
     /\ last.pre.message_id # ReceiveId)
    => (last.res = "InvalidAccountData" /\ RecordUntouched)

C28_Witness ==
    /\ last.op = "Receive"
    /\ PassesChecks(last)
    /\ last.pre.is_initialized
    /\ last.pre.status = Completed
    /\ last.pre.message_id # ReceiveId
    /\ last.res = "InvalidAccountData"

\* C29: a record that a Send or Query has written into an account of the
\* program at least as large as the record is loaded by the next Receive or
\* ProcessResponse: a ProcessResponse, and a Receive deriving the record's
\* message_id, do not fail with InvalidAccountData.
C29_StoreLoadRoundTrip ==
    (/\ last.op \in {"Receive", "ProcessResponse"}
     /\ PassesChecks(last)
     /\ slot.owned
     /\ last.pre.is_initialized
     /\ RecordLen(last.pre) <= slot.cap
     /\ last.op = "Receive" => last.pre.message_id = ReceiveId)
    => last.res # "InvalidAccountData"

\* a record has a response exactly when it is Completed
ResponseIffCompleted(rec) == (rec.response_data # None) <=> (rec.status = Completed)

\* C30: the record of an account of the program has a response exactly when
\* it is Completed; and a call that finds an empty account, or a record that
\* has a response exactly when it is Completed, writes such a record.
C30_ResponseIffCompleted ==
    /\ (slot.owned /\ slot.rec.is_initialized) => ResponseIffCompleted(slot.rec)
    /\ (/\ last.op # "None"
        /\ last.wrote = "record"
        /\ ~last.pre.is_initialized \/ ResponseIffCompleted(last.pre))
       => ResponseIffCompleted(last.buf)

C30_Witness ==
    /\ last.op = "Receive"
    /\ last.res = "Ok"
    /\ slot.owned
    /\ last.pre.status = Pending
    /\ slot.rec.status = Delivered
    /\ slot.rec.response_data = None

\* C31: in an account of the program that started zero-filled, whatever the
\* four instructions have stored is initialized and Pending, Delivered or
\* Completed; and no instruction leaves InFlight or Failed in what it writes.
C31_OnlyThreeStatusesProduced ==
    /\ (slot.owned /\ slot.rec # ZeroRecord)
       => /\ slot.rec.is_initialized
          /\ slot.rec.status \in {Pending, Delivered, Completed}
    /\ (last.op # "None" /\ last.wrote = "record")
       => /\ last.buf.is_initialized
          /\ last.buf.status \in {Pending, Delivered, Completed}

C31_Witness ==
    /\ slot.owned
    /\ last.op = "Receive"
    /\ last.committed
    /\ last.pre.status = Pending
    /\ slot.rec.is_initialized
    /\ slot.rec.status = Delivered
    /\ clock = MaxClock

\* C32: a record that Send or Query writes has the config's solana_chain_id
\* as source_chain_id; the record that Receive builds for an account without
\* data has it as destination_chain_id; and every record stored in an account
\* of the program has it on one side at least.
C32_LocalChainOnOneSide ==
    /\ (last.op \in {"Send", "Query"} /\ last.wrote = "record")
       => last.buf.source_chain_id = config.val.solana_chain_id
    /\ (last.op = "Receive" /\ PassesChecks(last) /\ data_is_empty(PreAccount))
       => /\ ReceivedRecord(last.data[1], config, last.signer, last.now)
                .destination_chain_id = config.val.solana_chain_id
          /\ last.wrote = "record"
             => last.buf = ReceivedRecord(last.data[1], config, last.signer,
                                          last.now)
    /\ (slot.owned /\ slot.rec.is_initialized)
       => \/ slot.rec.source_chain_id = config.val.solana_chain_id
          \/ slot.rec.destination_chain_id = config.val.solana_chain_id

C32_Witness ==
    /\ last.op = "Query"
    /\ last.committed
    /\ slot.owned
    /\ slot.rec.is_initialized
    /\ slot.rec.source_chain_id = config.val.solana_chain_id
    /\ slot.rec.destination_chain_id # config.val.solana_chain_id

\* the id of the message with the source chain, message type and payload of
\* the last request, bound for the local chain, with nonce 0
ContentId ==
    generate_id(CrossChainMessage_new(last.data[1].source_chain_id,
                                      config.val.solana_chain_id,
                                      last.data[1].message_type,
                                      last.data[1].payload, 0, None))

\* C33: a Receive on a record whose message_id is the id of the request's
\* source chain, message type and payload with nonce 0 is taken as a delivery
\* of that record, whatever its source_address and the clock: it is refused
\* with MessageAlreadyProcessed when the record is Completed and succeeds
\* otherwise.
C33_ReceiveIdentityOfContent ==
    (/\ last.op = "Receive"
     /\ PassesChecks(last)
     /\ RecordParses(PreAccount)
     /\ last.pre.is_initialized
     /\ last.pre.message_id = ContentId)
    => IF last.pre.status = Completed
       THEN last.res = "MessageAlreadyProcessed" /\ RecordUntouched
       ELSE last.res = "Ok" /\ last.buf = update_status(last.pre, Delivered)

C33_Witness ==
    /\ last.op = "Receive"
    /\ PassesChecks(last)
    /\ last.pre.is_initialized
    /\ last.pre.status = Completed
    /\ last.pre.message_id = ContentId
    /\ last.data[1].source_address = OtherSourceAddress
    /\ last.now = MaxClock
    /\ last.res = "MessageAlreadyProcessed"

\* the payload an outbound call hands to the message
CallPayload(x) ==
    IF x.op = "Send" THEN x.in.data[1].payload
    ELSE QueryParamsBytes(x.in.data[1].query_params)

\* the message type an outbound call hands to the message
CallType(x) ==
    IF x.op = "Send" THEN x.in.data[1].message_type
    ELSE x.in.data[1].query_params.query_type

\* C34: two Sends, or two Queries, under the same config, that agree on
\* destination chain, message type, payload and clock, write records with
\* the same message_id, whoever signs them and whatever destination address
\* and gas limit they name.
C34_OutboundIdIgnoresSender ==
    (/\ calc.fn = "outbound_pair"
     /\ calc.out[1].wrote = "record"
     /\ calc.out[2].wrote = "record"
     /\ calc.in[1].in.data[1].destination_chain_id
          = calc.in[2].in.data[1].destination_chain_id
     /\ CallType(calc.in[1]) = CallType(calc.in[2])
     /\ CallPayload(calc.in[1]) = CallPayload(calc.in[2])
     /\ calc.in[1].now = calc.in[2].now)
    => calc.out[1].buf.message_id = calc.out[2].buf.message_id

C34_Witness ==
    /\ calc.fn = "outbound_pair"
    /\ calc.in[1].op = "Send"
    /\ calc.out[1].res = "Ok"
    /\ calc.out[2].res = "Ok"
    /\ calc.in[1].in.signer # calc.in[2].in.signer
    /\ calc.in[1].in.data[1].destination_address
         # calc.in[2].in.data[1].destination_address
    /\ calc.in[1].in.data[1].gas_limit # calc.in[2].in.data[1].gas_limit
    /\ calc.out[1].buf.sender # calc.out[2].buf.sender
    /\ calc.out[1].buf.message_id = calc.out[2].buf.message_id

\* the errors of the checks send_message::process makes before the clock
SendCheckErrors ==
    {"Unauthorized", "InvalidInstructionData", "PayloadTooLarge",
     "InvalidAccountData", "AccountNotInitialized", "InvalidEndpoint"}

\* C35: a Send with every account in place returns the error of the first
\* condition that holds among: no signature, undecodable request, payload
\* longer than MaxPayloadLen, undecodable config, config not initialized,
\* endpoint other than the config's; and none of these errors when none does.
C35_SendErrorPrecedence ==
    (last.op = "Send" /\ last.fault = "none")
    => IF ~last.is_signer THEN last.res = "Unauthorized"
       ELSE IF last.data = None THEN last.res = "InvalidInstructionData"
       ELSE IF BLen(last.data[1].payload) > MaxPayloadLen
       THEN last.res = "PayloadTooLarge"
       ELSE IF ~ConfigParses(config) THEN last.res = "InvalidAccountData"
       ELSE IF ~config.val.is_initialized THEN last.res = "AccountNotInitialized"
       ELSE IF config.val.layerzero_endpoint # last.endpoint
       THEN last.res = "InvalidEndpoint"
       ELSE last.res \notin SendCheckErrors

C35_Witness ==
    /\ last.op = "Send"
    /\ last.fault = "none"
    /\ last.is_signer
    /\ last.data # None
    /\ BLen(last.data[1].payload) > MaxPayloadLen
    /\ ~config.val.is_initialized
    /\ config.val.layerzero_endpoint # last.endpoint
    /\ last.res = "PayloadTooLarge"

\* C36: a ProcessResponse that passes the signer, decoding, config and
\* endpoint checks on a Completed record returns MessageNotFound when the
\* original_message_id is not the record's and MessageAlreadyProcessed when
\* it is; MessageAlreadyProcessed is returned only for the record's id, and
\* neither error is returned by a call that fails one of those checks.
C36_IdentityBeforeCompletion ==
    /\ (/\ last.op = "ProcessResponse"
        /\ PassesChecks(last)
        /\ RecordParses(PreAccount)
        /\ last.pre.status = Completed)
       => last.res = IF last.pre.message_id # last.data[1].original_message_id
                     THEN "MessageNotFound"
                     ELSE "MessageAlreadyProcessed"
    /\ (/\ last.op = "ProcessResponse"
        /\ last.res \in {"MessageNotFound", "MessageAlreadyProcessed"})
       => /\ PassesChecks(last)
          /\ last.res = "MessageAlreadyProcessed"
             => last.pre.message_id = last.data[1].original_message_id

C36_Witness ==
    /\ last.op = "ProcessResponse"
    /\ PassesChecks(last)
    /\ last.pre.is_initialized
    /\ last.pre.status = Completed
    /\ last.data[1].original_message_id = OtherId
    /\ last.res = "MessageNotFound"
    /\ RecordUntouched

\* what the handler `op` returns on the last call's accounts and on the bytes
\* after the first byte of its instruction data
HandlerOut(op) ==
    LET rest == Tail(last.instruction_data)
    IN  CASE op = "Send" ->
               send_message_process(PreAccount, last.signer, last.is_signer,
                   Decode("Send", rest), config, last.endpoint, last.now, last.fault)
          [] op = "Receive" ->
               receive_message_process(PreAccount, last.signer, last.is_signer,
                   Decode("Receive", rest), config, last.endpoint, last.now,
                   last.fault)
          [] op = "Query" ->
               query_data_process(PreAccount, last.signer, last.is_signer,
                   Decode("Query", rest), config, last.endpoint, last.now,
                   last.fault)
          [] op = "ProcessResponse" ->
               process_response_process(PreAccount, last.signer, last.is_signer,
                   Decode("ProcessResponse", rest), config, last.endpoint,
                   last.now, last.fault)

\* the last call returned and left behind what the handler `op` does
RoutedTo(op) ==
    /\ last.res = HandlerOut(op).res
    /\ last.buf = HandlerOut(op).buf
    /\ last.wrote = HandlerOut(op).wrote
    /\ last.disp = HandlerOut(op).disp

\* C37: an instruction whose first byte is 0, 1, 2 or 3 does what Send,
\* Receive, Query or ProcessResponse does on the remaining bytes; an
\* instruction without data or with a first byte above 3 fails with
\* InvalidInstructionData and leaves the record as it was.
C37_RoutesOnFirstByte ==
    last.op # "None"
    => IF last.instruction_data = <<>> \/ Head(last.instruction_data) > 3
       THEN last.res = "InvalidInstructionData" /\ RecordUntouched
       ELSE /\ Head(last.instruction_data) = 0 => RoutedTo("Send")
            /\ Head(last.instruction_data) = 1 => RoutedTo("Receive")
            /\ Head(last.instruction_data) = 2 => RoutedTo("Query")
            /\ Head(last.instruction_data) = 3 => RoutedTo("ProcessResponse")

C37_Witness ==
    /\ last.op = "Malformed"
    /\ last.is_signer
    /\ last.instruction_data # <<>>
    /\ Head(last.instruction_data) > 3
    /\ last.pre.is_initialized
    /\ slot.owned
    /\ last.res = "InvalidInstructionData"

\* C38: for every destination chain, every payload size up to MaxPayloadLen
\* and every u64 gas limit, the sum get_fee_quote computes does not wrap; for
\* a gas limit below 2^30 it is the quote computed without a width.
C38_FeeQuoteFitsU64 ==
    (calc.fn = "get_fee_quote_u64" /\ calc.in[1].payload_size <= MaxPayloadLen)
    => /\ ~calc.out[1].overflow
       /\ (calc.in[1].gas_limit[1] = 0 /\ calc.in[1].gas_limit[2] = 0
           /\ calc.in[1].gas_limit[3] < LimbBase \div 4)
          => calc.out[1].value
               = ToU64(get_fee_quote(
                     calc.in[1].destination_chain_id, calc.in[1].payload_size,
                     MessageOptions(calc.in[1].gas_limit[3] * LimbBase
                                      + calc.in[1].gas_limit[4], "A")))

C38_Witness ==
    /\ calc.fn = "get_fee_quote_u64"
    /\ calc.in[1].destination_chain_id = 1
    /\ calc.in[1].payload_size = MaxPayloadLen
    /\ calc.in[1].gas_limit
         = <<LimbBase - 1, LimbBase - 1, LimbBase - 1, LimbBase - 1>>
    /\ ~calc.out[1].overflow
    /\ calc.out[1].value = <<65, 35127, 19429, 11375>>  \* 18446744075709551

\* C39: the program error code of every variant of SolanaOpenApiError is
\* decoded by from_u64 to that variant.
C39_ErrorCodesRoundTrip ==
    calc.fn = "error_code" => calc.out[2] = Some(calc.in[1])

====
